---- MODULE Spec2Model ----
(***************************************************************************)
(* Model of the content-evolution engine of src/self_evolution_agent.py:   *)
(* SelfEvolutionAgent.evolve_content and the generate -> judge -> merge    *)
(* -> decide loop it drives (VariantGenerator, LLMJudgeEvaluator,          *)
(* VariantMerger).                                                         *)
(*                                                                         *)
(* Scores are the program's floats scaled by 100 (3.05 is 305), so every   *)
(* comparison of the code is an exact integer comparison here.             *)
(* A text is a sequence of tokens; the token SEP stands for the paragraph  *)
(* delimiter "\n\n" and every other token for a piece of text without it.  *)
(* The empty sequence is the empty string.                                 *)
(***************************************************************************)
EXTENDS Integers, Sequences, FiniteSets, TLC

VARIABLES
    pc,                 \* position of evolve_content: idle, iterate, update, finish, done
    calls,              \* number of evolve_content calls made on the agent so far
    input_data,         \* the argument of the current call
    config,             \* self.config
    current_evolution,  \* self.current_evolution
    evolution_progress, \* self.evolution_progress (None or an EvolutionProgress)
    evolution_history,  \* self.evolution_history, one audit record per iteration
    best_content,       \* local best_content of evolve_content
    best_score,         \* local best_score of evolve_content
    iteration,          \* loop variable of "for iteration in range(max_iterations)"
    variants,           \* variants of the iteration just executed
    critiques,          \* critiques of the iteration just executed
    gen_oracle,         \* what the generation step did for each strategy in that iteration
    iteration_result,   \* return value of _execute_evolution_iteration
    reason,             \* second component of _check_convergence's result
    result,             \* return value of evolve_content
    direct_call,        \* the latest call made directly on a component
                        \* (VariantMerger, LLMJudgeEvaluator), with its result
    cancel_requested    \* the caller has asked the run to stop (the program
                        \* has no input for it and never reads it)

vars == <<pc, calls, input_data, config, current_evolution, evolution_progress,
          evolution_history, best_content, best_score, iteration, variants,
          critiques, gen_oracle, iteration_result, reason, result, direct_call,
          cancel_requested>>

-----------------------------------------------------------------------------
(* Bounds of the model *)

\* evolve_content calls on one agent (SpecReuse)
MaxCalls == 2
\* largest max_iterations a caller configures explicitly
MaxIterCfg == 3

(* Program constants *)

NumStrategies == 6
DefaultMaxIterations == 5
DefaultConvergenceThreshold == 400
DefaultPlateauWindow == 3
DefaultImprovementThreshold == 10
FallbackCritiqueScore == 300
SEP == 0

None == "None"

Strategies == 1..NumStrategies

-----------------------------------------------------------------------------
(* Text helpers: str.split('\n\n') and '\n\n'.join *)

RECURSIVE Split(_)
Split(s) ==
    IF \A i \in 1..Len(s) : s[i] # SEP
    THEN <<s>>
    ELSE LET k == CHOOSE i \in 1..Len(s) :
                      s[i] = SEP /\ \A j \in 1..(i-1) : s[j] # SEP
         IN  <<SubSeq(s, 1, k-1)>> \o Split(SubSeq(s, k+1, Len(s)))

RECURSIVE Join(_)
Join(secs) ==
    IF Len(secs) = 0 THEN <<>>
    ELSE IF Len(secs) = 1 THEN secs[1]
    ELSE secs[1] \o <<SEP>> \o Join(Tail(secs))

SeqMax(s) == CHOOSE x \in {s[i] : i \in 1..Len(s)} : \A i \in 1..Len(s) : s[i] <= x

SeqMin(s) == CHOOSE x \in {s[i] : i \in 1..Len(s)} : \A i \in 1..Len(s) : s[i] >= x

\* seq[start:] of Python, start possibly negative
PySliceFrom(seq, start) ==
    LET n == Len(seq)
        lo == IF start < 0 THEN (IF n + start < 0 THEN 0 ELSE n + start)
              ELSE (IF start > n THEN n ELSE start)
    IN  SubSeq(seq, lo + 1, n)

-----------------------------------------------------------------------------
(* VariantGenerator *)

\* A request as built at lines 1326-1333: the fields the generator reads.
VariantGenerationRequest(base_content, variant_type) ==
    [base_content |-> base_content, variant_type |-> variant_type]

\* The outcome of the generation step (strategy_func, line 271) for one
\* request: it raised (ok = FALSE), or it produced a text.  stamp is the
\* clock reading that goes into the variant id.
GenOutcome(ok, content, stamp) == [ok |-> ok, content |-> content, stamp |-> stamp]

PlaceholderScores == {<<"overall", 50>>}
FallbackRationale == "Fallback variant due to generation failure"

\* sensitivity of C10: a fallback that drops the request's base content
CreateFallbackVariant_EmptyContent(request, stamp) ==
    [ variant_id            |-> <<"fallback", 0, stamp>>,
      variant_type          |-> request.variant_type,
      content               |-> <<>>,
      generation_strategy   |-> "fallback",
      quality_scores        |-> PlaceholderScores,
      improvement_rationale |-> FallbackRationale ]

CreateFallbackVariant(request, stamp) ==
    [ variant_id            |-> <<"fallback", 0, stamp>>,
      variant_type          |-> request.variant_type,
      content               |-> request.base_content,
      generation_strategy   |-> "fallback",
      quality_scores        |-> PlaceholderScores,
      improvement_rationale |-> FallbackRationale ]

\* sensitivity of C22: a generation failure that leaves generate_variant
GenerateVariant_Raises(request, outcome) ==
    IF outcome.ok
    THEN [ variant_id            |-> <<"variant", request.variant_type, outcome.stamp>>,
           variant_type          |-> request.variant_type,
           content               |-> outcome.content,
           generation_strategy   |-> "task_tool",
           quality_scores        |-> {},
           improvement_rationale |-> "strategy rationale" ]
    ELSE [raised |-> TRUE]

\* generate_variant: the try block builds the variant from the generated
\* text; any exception of the generation step is caught and answered with
\* the fallback variant.  The value is the returned variant; Raised would be
\* an exception leaving generate_variant.
Raised == [raised |-> TRUE]

GenerateVariant(request, outcome) ==
    IF outcome.ok
    THEN [ variant_id            |-> <<"variant", request.variant_type, outcome.stamp>>,
           variant_type          |-> request.variant_type,
           content               |-> outcome.content,
           generation_strategy   |-> "task_tool",
           quality_scores        |-> {},
           improvement_rationale |-> "strategy rationale" ]
    ELSE CreateFallbackVariant(request, outcome.stamp)

\* _generate_variants_task_parallel: one request per variant type, in the
\* order of list(VariantType); a call that raises is logged and skipped.
RECURSIVE GenerateVariantsFrom(_, _, _)
GenerateVariantsFrom(t, base_content, outcomes) ==
    IF t > NumStrategies THEN <<>>
    ELSE LET v == GenerateVariant(VariantGenerationRequest(base_content, t), outcomes[t])
         IN  (IF v = Raised THEN <<>> ELSE <<v>>)
             \o GenerateVariantsFrom(t + 1, base_content, outcomes)

\* _generate_variants_parallel: 'parallel_generation' and tools['Task'] are
\* both True, so the task-parallel path is the one taken; its own except
\* branch needs an exception that the inner loop has already caught.
GenerateVariantsParallel(base_content, outcomes) ==
    GenerateVariantsFrom(1, base_content, outcomes)

-----------------------------------------------------------------------------
(* LLMJudgeEvaluator *)

Dimensions == <<"accuracy", "completeness", "coherence", "originality",
                "evidence_quality", "logical_flow", "critical_thinking",
                "synthesis_quality">>

\* _calculate_dimension_score returns max(1.0, min(5.0, base_score))
ClampScore(base_score) ==
    IF base_score > 500 THEN 500 ELSE IF base_score < 100 THEN 100 ELSE base_score

\* sensitivity of C16: weights that do not add up to 1.0
DimensionWeights_Unnormalised == <<20, 15, 15, 10, 15, 10, 10, 10>>

\* criteria['weight'] of each dimension, in percent
DimensionWeights == <<20, 15, 15, 10, 15, 10, 10, 5>>

RECURSIVE WeightedSumFrom(_, _)
WeightedSumFrom(i, scores) ==
    IF i > Len(Dimensions) THEN 0
    ELSE scores[i] * DimensionWeights[i] + WeightedSumFrom(i + 1, scores)

\* overall_score = sum(dimension_scores[d] * weight[d]); scores are in
\* hundredths and weights in percent, so the sum is divided by 100.
OverallScore(scores) == WeightedSumFrom(1, scores) \div 100

DimensionScoreDict(scores) == { <<Dimensions[i], scores[i]>> : i \in 1..Len(Dimensions) }

\* The outcome of judging one variant: the dimension evaluation raised
\* (ok = FALSE) or gave one score per dimension.
JudgeOutcome(ok, scores) == [ok |-> ok, scores |-> scores]

NeutralScores == [i \in 1..Len(Dimensions) |-> FallbackCritiqueScore]

CreateFallbackCritique(variant) ==
    [ target_variant_id |-> variant.variant_id,
      overall_score     |-> FallbackCritiqueScore,
      dimension_scores  |-> DimensionScoreDict(NeutralScores),
      critique_points   |-> <<>>,
      fallback          |-> TRUE ]

\* _generate_dimension_critique_points: one point for a dimension scored
\* below 3.0, with severity int(4 - score); none otherwise
DimensionCritiquePoints(i, score) ==
    IF score < 300
    THEN << [ dimension      |-> Dimensions[i],
              severity       |-> (400 - score) \div 100,
              priority_level |-> (400 - score) \div 100 ] >>
    ELSE <<>>

\* critique_points.extend(points) over the dimensions in order
RECURSIVE CritiquePointsFrom(_, _)
CritiquePointsFrom(i, scores) ==
    IF i > Len(Dimensions) THEN <<>>
    ELSE DimensionCritiquePoints(i, scores[i]) \o CritiquePointsFrom(i + 1, scores)

EvaluateVariant(variant, outcome) ==
    IF outcome.ok
    THEN [ target_variant_id |-> variant.variant_id,
           overall_score     |-> OverallScore(outcome.scores),
           dimension_scores  |-> DimensionScoreDict(outcome.scores),
           critique_points   |-> CritiquePointsFrom(1, outcome.scores),
           fallback          |-> FALSE ]
    ELSE CreateFallbackCritique(variant)

\* _evaluate_variants: one critique per variant, in order; the variant's
\* quality_scores are overwritten with the critique's dimension scores.
EvaluateVariants(vs, outcomes) ==
    [i \in 1..Len(vs) |-> EvaluateVariant(vs[i], outcomes[i])]

JudgedVariants(vs, cs) ==
    [i \in 1..Len(vs) |-> [vs[i] EXCEPT !.quality_scores = cs[i].dimension_scores]]

-----------------------------------------------------------------------------
(* VariantMerger *)

\* quality of a section whose variant has no critique (line 929)
MissingCritiqueQuality == 300

\* critique_map.get(variant_id): the dict comprehension keeps the last
\* critique of an id
LastCritiqueIndex(cs, vid) ==
    CHOOSE i \in 1..Len(cs) :
        /\ cs[i].target_variant_id = vid
        /\ \A j \in (i+1)..Len(cs) : cs[j].target_variant_id # vid

SectionQuality(cs, vid) ==
    IF \E i \in 1..Len(cs) : cs[i].target_variant_id = vid
    THEN cs[LastCritiqueIndex(cs, vid)].overall_score
    ELSE MissingCritiqueQuality

\* variant_sections joined with critique_map: one entry per variant_id, at
\* the position of the id's first insertion and with the sections of its
\* last (a dict keeps a key's place and takes the newest value)
SectionsOfKey(vs, k) ==
    LET last == CHOOSE i \in 1..Len(vs) :
                    /\ vs[i].variant_id = vs[k].variant_id
                    /\ \A j \in (i+1)..Len(vs) : vs[j].variant_id # vs[k].variant_id
    IN  Split(vs[last].content)

RECURSIVE SectionTableFrom(_, _, _)
SectionTableFrom(i, vs, cs) ==
    IF i > Len(vs) THEN <<>>
    ELSE (IF \E j \in 1..(i-1) : vs[j].variant_id = vs[i].variant_id
          THEN <<>>
          ELSE << [ variant_id |-> vs[i].variant_id,
                    sections   |-> SectionsOfKey(vs, i),
                    quality    |-> SectionQuality(cs, vs[i].variant_id) ] >>)
         \o SectionTableFrom(i + 1, vs, cs)

\* sensitivity of C27: the candidate of lowest quality is taken
BestCandidate_LowestQuality(table, idx) ==
    LET cand == {n \in 1..Len(table) : idx <= Len(table[n].sections)}
    IN  CHOOSE n \in cand :
            \A m \in cand : IF m < n THEN table[m].quality > table[n].quality
                            ELSE table[m].quality >= table[n].quality

\* max(section_candidates, key=quality): the first candidate of maximal
\* quality among the entries that have a section at idx
BestCandidate(table, idx) ==
    LET cand == {n \in 1..Len(table) : idx <= Len(table[n].sections)}
    IN  CHOOSE n \in cand :
            \A m \in cand : IF m < n THEN table[m].quality < table[n].quality
                            ELSE table[m].quality <= table[n].quality

\* the value of the one element of a singleton set
Only(S) == CHOOSE x \in S : TRUE

\* sensitivity of C15: a merge that loses the last section
MergedSections_SkipsLast(table) ==
    LET max_sections == SeqMax([n \in 1..Len(table) |-> Len(table[n].sections)])
    IN  [idx \in 1..(max_sections - 1) |-> table[BestCandidate(table, idx)].sections[idx]]

MergedSections(table) ==
    LET max_sections == SeqMax([n \in 1..Len(table) |-> Len(table[n].sections)])
    IN  [idx \in 1..max_sections |-> table[BestCandidate(table, idx)].sections[idx]]

MergeBestSections(vs, cs) ==
    Only({ Only({ Join(merged) : merged \in {MergedSections(table) \o <<>>} })
             : table \in {SectionTableFrom(1, vs, cs)} })

\* self.merge_strategies: the names with a merge function of their own
MergeStrategies == {"best_sections", "weighted_synthesis", "consensus_building",
                    "hierarchical_integration"}

\* What the selected merge function does on two or more variants: it raises,
\* or it returns.  The text of the three sentence-level strategies depends on
\* the wording of the contents, which a token does not carry, so their
\* returned text is part of the outcome; best_sections is computed.
MergeOutcome(raised, text) == [raised |-> raised, text |-> text]

\* key of _select_best_variant: the score of the id's critique, else 0.0
SelectionKey(cs, vid) ==
    IF \E i \in 1..Len(cs) : cs[i].target_variant_id = vid
    THEN cs[LastCritiqueIndex(cs, vid)].overall_score
    ELSE 0

\* sensitivity of C12: a fallback that ignores the critiques
SelectBestVariant_FirstVariant(vs, cs) ==
    IF Len(vs) = 0 THEN <<>> ELSE vs[1].content

\* _select_best_variant: max() keeps the first variant of maximal key
SelectBestVariant(vs, cs) ==
    IF Len(vs) = 0 THEN <<>>
    ELSE IF Len(cs) = 0 THEN vs[1].content
    ELSE LET best == CHOOSE n \in 1..Len(vs) :
                        \A m \in 1..Len(vs) :
                            IF m < n
                            THEN SelectionKey(cs, vs[m].variant_id)
                                     < SelectionKey(cs, vs[n].variant_id)
                            ELSE SelectionKey(cs, vs[m].variant_id)
                                     <= SelectionKey(cs, vs[n].variant_id)
         IN  vs[best].content

\* sensitivity of C13: no shortcut for a single variant
MergeVariants_NoSingleShortcut(vs, cs, merge_strategy, outcome) ==
    IF Len(vs) = 0 THEN <<>>
    ELSE IF outcome.raised THEN SelectBestVariant(vs, cs)
    ELSE IF merge_strategy \in MergeStrategies \ {"best_sections"}
         THEN outcome.text
         ELSE MergeBestSections(vs, cs)

\* sensitivity of C14: a placeholder text for an empty variant list
MergeVariants_EmptyPlaceholder(vs, cs, merge_strategy, outcome) ==
    IF Len(vs) = 0 THEN <<91>>
    ELSE IF Len(vs) = 1 THEN vs[1].content
    ELSE IF outcome.raised THEN SelectBestVariant(vs, cs)
    ELSE IF merge_strategy \in MergeStrategies \ {"best_sections"}
         THEN outcome.text
         ELSE MergeBestSections(vs, cs)

\* merge_variants: empty list, single variant, else the selected merge
\* function (an unknown name selects best_sections); any exception is
\* answered with _select_best_variant.
MergeVariants(vs, cs, merge_strategy, outcome) ==
    IF Len(vs) = 0 THEN <<>>
    ELSE IF Len(vs) = 1 THEN vs[1].content
    ELSE IF outcome.raised THEN SelectBestVariant(vs, cs)
    ELSE IF merge_strategy \in MergeStrategies \ {"best_sections"}
         THEN outcome.text
         ELSE MergeBestSections(vs, cs)

\* merge_variants called with 'best_sections', as the engine calls it
\* (line 1392), on variants and critiques the merge function accepts
MergeVariantsBestSections(vs, cs) ==
    MergeVariants(vs, cs, "best_sections", MergeOutcome(FALSE, <<>>))

\* SelfEvolutionAgent._merge_variants
AgentMergeVariants(vs, cs) == MergeVariantsBestSections(vs, cs)

-----------------------------------------------------------------------------
(* SelfEvolutionAgent: configuration and termination checks *)

ConfigKeys == {"max_iterations", "convergence_threshold",
               "plateau_detection_window", "quality_improvement_threshold"}

\* self.config as set by __init__ (the keys the loop reads)
DefaultConfig ==
    [k \in ConfigKeys |->
        CASE k = "max_iterations"                -> DefaultMaxIterations
          [] k = "convergence_threshold"         -> DefaultConvergenceThreshold
          [] k = "plateau_detection_window"      -> DefaultPlateauWindow
          [] k = "quality_improvement_threshold" -> DefaultImprovementThreshold]

\* self.config.update(custom_config): the keys of the dict are set, new
\* keys are added, every other key keeps its value
ApplyCustomConfig(cfg, custom) ==
    [k \in DOMAIN cfg \cup DOMAIN custom |->
        IF k \in DOMAIN custom THEN custom[k] ELSE cfg[k]]

\* sensitivity of C7: a validation that rejects only when both are missing
InputInvalid_BothMissing(in) == in.content = <<>> /\ in.target_section = None

\* "if not base_content or not target_section: raise ValueError"
InputInvalid(in) == in.content = <<>> \/ in.target_section = None

\* _detect_plateau: "True", "False", or "ValueError" when max() is applied
\* to an empty slice
DetectPlateau(score_history, cfg) ==
    LET window    == cfg["plateau_detection_window"]
        threshold == cfg["quality_improvement_threshold"]
    IN  IF Len(score_history) < window + 1 THEN "False"
        ELSE LET recent_scores == PySliceFrom(score_history, 0 - window)
             IN  IF recent_scores = <<>> THEN "ValueError"
                 ELSE IF SeqMax(recent_scores) - SeqMin(recent_scores) < threshold
                      THEN "True" ELSE "False"

CheckResult(raised, should_continue, why) ==
    [raised |-> raised, should_continue |-> should_continue, reason |-> why]

\* sensitivity of C3: convergence only when strictly above the threshold
CheckConvergence_StrictThreshold(current_score, iter, cfg, score_history) ==
    IF iter >= cfg["max_iterations"]
    THEN CheckResult(FALSE, FALSE, "max_iterations")
    ELSE IF current_score > cfg["convergence_threshold"]
    THEN CheckResult(FALSE, FALSE, "converged")
    ELSE LET plateau == DetectPlateau(score_history, cfg)
         IN  IF plateau = "ValueError" THEN CheckResult(TRUE, FALSE, "error")
             ELSE IF plateau = "True" THEN CheckResult(FALSE, FALSE, "plateau")
             ELSE CheckResult(FALSE, TRUE, "continue")

\* sensitivity of C8: convergence tested before the iteration budget
CheckConvergence_ConvergenceFirst(current_score, iter, cfg, score_history) ==
    IF current_score >= cfg["convergence_threshold"]
    THEN CheckResult(FALSE, FALSE, "converged")
    ELSE IF iter >= cfg["max_iterations"]
    THEN CheckResult(FALSE, FALSE, "max_iterations")
    ELSE LET plateau == DetectPlateau(score_history, cfg)
         IN  IF plateau = "ValueError" THEN CheckResult(TRUE, FALSE, "error")
             ELSE IF plateau = "True" THEN CheckResult(FALSE, FALSE, "plateau")
             ELSE CheckResult(FALSE, TRUE, "continue")

\* sensitivity of C9: a check that never reports the iteration budget
CheckConvergence_NoBudgetCheck(current_score, iter, cfg, score_history) ==
    IF current_score >= cfg["convergence_threshold"]
    THEN CheckResult(FALSE, FALSE, "converged")
    ELSE LET plateau == DetectPlateau(score_history, cfg)
         IN  IF plateau = "ValueError" THEN CheckResult(TRUE, FALSE, "error")
             ELSE IF plateau = "True" THEN CheckResult(FALSE, FALSE, "plateau")
             ELSE CheckResult(FALSE, TRUE, "continue")

\* _check_convergence(current_score, iteration)
CheckConvergence(current_score, iter, cfg, score_history) ==
    IF iter >= cfg["max_iterations"]
    THEN CheckResult(FALSE, FALSE, "max_iterations")
    ELSE IF current_score >= cfg["convergence_threshold"]
    THEN CheckResult(FALSE, FALSE, "converged")
    ELSE LET plateau == DetectPlateau(score_history, cfg)
         IN  IF plateau = "ValueError" THEN CheckResult(TRUE, FALSE, "error")
             ELSE IF plateau = "True" THEN CheckResult(FALSE, FALSE, "plateau")
             ELSE CheckResult(FALSE, TRUE, "continue")

\* "for iteration in range(max_iterations)": is there an item at index i
RangeHasNext(i, max_iterations) == i < max_iterations

\* sensitivity of C1: the running best always follows the last iteration
UpdateBest_TakeLatest(content, score, iteration_res) ==
    [content |-> iteration_res.best_content, score |-> iteration_res.best_score]

\* sensitivity of C5: an iteration that ties the running best replaces it
UpdateBest_TiesReplace(content, score, iteration_res) ==
    IF iteration_res.best_score >= score
    THEN [content |-> iteration_res.best_content, score |-> iteration_res.best_score]
    ELSE [content |-> content, score |-> score]

\* sensitivity of C28: an iteration that ties the running best hands over
\* its content
UpdateBest_TieTakesContent(content, score, iteration_res) ==
    IF iteration_res.best_score > score
    THEN [content |-> iteration_res.best_content, score |-> iteration_res.best_score]
    ELSE IF iteration_res.best_score = score
    THEN [content |-> iteration_res.best_content, score |-> score]
    ELSE [content |-> content, score |-> score]

\* lines 1206-1208: the running best as [content, score]
UpdateBest(content, score, iteration_res) ==
    IF iteration_res.best_score > score
    THEN [content |-> iteration_res.best_content, score |-> iteration_res.best_score]
    ELSE [content |-> content, score |-> score]

\* sensitivity of C2: a progress update that does not count the iteration
UpdateProgress_NoCount(progress, score) ==
    [progress EXCEPT !.score_history = Append(@, score),
                     !.current_best_score = score]

\* sensitivity of C25: the new score is put in front of the history
UpdateProgress_Prepends(progress, score) ==
    [progress EXCEPT !.completed_iterations = @ + 1,
                     !.score_history = <<score>> \o @,
                     !.current_best_score = score]

\* lines 1211-1213
UpdateProgress(progress, score) ==
    [progress EXCEPT !.completed_iterations = @ + 1,
                     !.score_history = Append(@, score),
                     !.current_best_score = score]

\* lines 1181-1191
NewProgress(evolution_id, cfg) ==
    [ evolution_id          |-> evolution_id,
      total_iterations      |-> cfg["max_iterations"],
      completed_iterations  |-> 0,
      current_best_score    |-> 0,
      score_history         |-> <<>>,
      convergence_threshold |-> cfg["convergence_threshold"] ]

\* no component has been called directly
NoCall == [op |-> "none"]

NoResult ==
    [ status |-> "none", keys |-> {}, evolution_id |-> 0, final_content |-> <<>>,
      final_score |-> 0, iterations_completed |-> 0, history |-> <<>> ]

\* the dict returned at lines 1223-1232
SuccessResult(evolution_id, content, score, progress, history) ==
    [ status |-> "success",
      keys |-> {"status", "evolution_id", "final_content", "final_score",
                "iterations_completed", "improvement_achieved",
                "evolution_history", "final_analysis"},
      evolution_id |-> evolution_id, final_content |-> content,
      final_score |-> score,
      iterations_completed |-> progress.completed_iterations,
      history |-> history ]

\* the dict returned by the except branch, lines 1235-1240; history is its
\* 'partial_results'
ErrorResult(evolution_id, history) ==
    [ status |-> "error",
      keys |-> {"status", "error", "evolution_id", "partial_results"},
      evolution_id |-> evolution_id, final_content |-> <<>>,
      final_score |-> 0, iterations_completed |-> 0, history |-> history ]

\* _calculate_quality_improvement
QualityImprovement(cs, progress) ==
    IF Len(cs) = 0 THEN 0
    ELSE LET max_current == SeqMax([i \in 1..Len(cs) |-> cs[i].overall_score])
         IN  IF Len(progress.score_history) > 0
             THEN max_current - progress.score_history[Len(progress.score_history)]
             ELSE max_current - 300

\* "max(c.overall_score for c in critiques) if critiques else 0.0"
IterationBestScore(cs) ==
    IF Len(cs) = 0 THEN 0 ELSE SeqMax([i \in 1..Len(cs) |-> cs[i].overall_score])

\* the EvolutionIteration appended at line 1279 (the fields the loop and
\* its callers read back)
AuditRecord(evolution_id, number, vs, cs, merged, progress) ==
    [ evolution         |-> evolution_id,
      iteration_number  |-> number,
      n_variants        |-> Len(vs),
      n_critiques       |-> Len(cs),
      merged_result     |-> merged,
      max_score         |-> IterationBestScore(cs),
      quality_improvement |-> QualityImprovement(cs, progress) ]

-----------------------------------------------------------------------------
(* The agent as a state machine *)

Init ==
    /\ pc = "idle"
    /\ calls = 0
    /\ input_data = [content |-> <<>>, target_section |-> None, config |-> <<>>]
    /\ config = DefaultConfig
    /\ current_evolution = 0
    /\ evolution_progress = <<>>
    /\ evolution_history = <<>>
    /\ best_content = <<>>
    /\ best_score = 0
    /\ iteration = 0
    /\ variants = <<>>
    /\ critiques = <<>>
    /\ gen_oracle = <<>>
    /\ iteration_result = [best_content |-> <<>>, best_score |-> 0]
    /\ reason = "none"
    /\ result = NoResult
    /\ direct_call = NoCall
    /\ cancel_requested = FALSE

\* evolve_content up to the loop (lines 1161-1195), or its fast-fail return
StartRun(in) ==
    /\ pc \in {"idle", "done"}
    /\ calls < MaxCalls
    /\ calls' = calls + 1
    /\ current_evolution' = calls + 1
    /\ input_data' = in
    /\ variants' = <<>>
    /\ critiques' = <<>>
    /\ gen_oracle' = <<>>
    /\ iteration_result' = [best_content |-> <<>>, best_score |-> 0]
    /\ reason' = "none"
    /\ iteration' = 0
    /\ UNCHANGED <<direct_call, cancel_requested>>
    /\ IF InputInvalid(in)
       THEN /\ result' = ErrorResult(calls + 1, evolution_history)
            /\ pc' = "done"
            /\ best_content' = <<>>
            /\ best_score' = 0
            /\ UNCHANGED <<config, evolution_progress, evolution_history>>
       ELSE /\ config' = ApplyCustomConfig(config, in.config)
            /\ evolution_progress' = <<NewProgress(calls + 1, config')>>
            /\ best_content' = in.content
            /\ best_score' = 0
            /\ result' = NoResult
            /\ pc' = IF RangeHasNext(0, config'["max_iterations"])
                     THEN "iterate" ELSE "finish"
            /\ UNCHANGED evolution_history

\* _execute_evolution_iteration(iteration + 1, best_content, ...): generate,
\* evaluate, merge, record the iteration, return its merged content and score
ExecuteIteration(gen, judge) ==
    /\ pc = "iterate"
    /\ \E vs0 \in {GenerateVariantsParallel(best_content, gen)} :
       \E cs \in {EvaluateVariants(vs0, judge)} :
       \E vs \in {JudgedVariants(vs0, cs)} :
       \E merged \in {AgentMergeVariants(vs, cs)} :
           /\ variants' = vs
           /\ critiques' = cs
           /\ gen_oracle' = gen
           /\ evolution_history' =
                  Append(evolution_history,
                         AuditRecord(current_evolution, iteration + 1, vs, cs,
                                     merged, evolution_progress[1]))
           /\ iteration_result' = [best_content |-> merged,
                                   best_score   |-> IterationBestScore(cs)]
    /\ pc' = "update"
    /\ UNCHANGED <<cancel_requested, direct_call, calls, input_data, config, current_evolution,
                   evolution_progress, best_content, best_score, iteration,
                   reason, result>>

\* lines 1205-1218, and the except branch when the check raises
UpdateAndCheck ==
    /\ pc = "update"
    /\ LET best     == UpdateBest(best_content, best_score, iteration_result)
           progress == UpdateProgress(evolution_progress[1], best.score)
           check    == CheckConvergence(best.score, iteration + 1, config,
                                        progress.score_history)
       IN  /\ best_content' = best.content
           /\ best_score' = best.score
           /\ evolution_progress' = <<progress>>
           /\ reason' = check.reason
           /\ IF check.raised
              THEN /\ result' = ErrorResult(current_evolution, evolution_history)
                   /\ pc' = "done"
                   /\ UNCHANGED iteration
              ELSE /\ UNCHANGED result
                   /\ IF check.should_continue
                         /\ RangeHasNext(iteration + 1, config["max_iterations"])
                      THEN pc' = "iterate" /\ iteration' = iteration + 1
                      ELSE pc' = "finish" /\ UNCHANGED iteration
    /\ variants' = <<>>
    /\ critiques' = <<>>
    /\ gen_oracle' = <<>>
    /\ UNCHANGED <<cancel_requested, direct_call, calls, input_data, config, current_evolution,
                   evolution_history, iteration_result>>

\* lines 1220-1232
Finish ==
    /\ pc = "finish"
    /\ result' = SuccessResult(current_evolution, best_content, best_score,
                               evolution_progress[1], evolution_history)
    /\ pc' = "done"
    /\ UNCHANGED <<cancel_requested, direct_call, calls, input_data, config, current_evolution,
                   evolution_progress, evolution_history, best_content,
                   best_score, iteration, variants, critiques, gen_oracle,
                   iteration_result, reason>>

-----------------------------------------------------------------------------
(* Inputs and oracle behaviours explored *)

BaseText == <<1>>

\* the overall scores the judge hands out (3.00, 3.05, 3.50, 4.20)
JudgeScores == {300, 305, 350, 420}

\* text a successful generation returns for variant type t: one paragraph,
\* two for the second type
OracleText(t) == IF t = 2 THEN <<10 + t, SEP, 20 + t>> ELSE <<10 + t>>

GenAllOk == [t \in Strategies |-> GenOutcome(TRUE, OracleText(t), t)]
GenAllFail == [t \in Strategies |-> GenOutcome(FALSE, <<>>, t)]
GenFailOnly(k) ==
    [t \in Strategies |-> IF t = k THEN GenOutcome(FALSE, <<>>, t)
                          ELSE GenOutcome(TRUE, OracleText(t), t)]

\* every strategy fails within one clock reading: the fallback ids collide
GenAllFailSameStamp == [t \in Strategies |-> GenOutcome(FALSE, <<>>, 0)]

GenChoices == {GenAllOk, GenAllFail, GenAllFailSameStamp, GenFailOnly(1)}

Uniform(d) == [i \in 1..Len(Dimensions) |-> d]

JudgeAll(d) == [t \in Strategies |-> JudgeOutcome(TRUE, Uniform(d))]
JudgeOneHigh(k, lo, hi) ==
    [t \in Strategies |-> JudgeOutcome(TRUE, Uniform(IF t = k THEN hi ELSE lo))]
JudgeAllFail == [t \in Strategies |-> JudgeOutcome(FALSE, <<>>)]
\* the judging of variant k raises, the others are scored d
JudgeFailOnly(k, d) ==
    [t \in Strategies |-> IF t = k THEN JudgeOutcome(FALSE, <<>>)
                          ELSE JudgeOutcome(TRUE, Uniform(d))]

JudgeChoices ==
    {JudgeAll(d) : d \in JudgeScores}
        \cup {JudgeOneHigh(NumStrategies, 300, hi) : hi \in {350, 420}}
        \cup {JudgeAllFail}

\* a custom_config dict; each argument is <<>> (key not given) or <<value>>
CustomConfig(max_it, conv, window, improve) ==
    LET opt(k) == CASE k = "max_iterations"                -> max_it
                    [] k = "convergence_threshold"         -> conv
                    [] k = "plateau_detection_window"      -> window
                    [] k = "quality_improvement_threshold" -> improve
    IN  [k \in {x \in ConfigKeys : opt(x) # <<>>} |-> opt(k)[1]]

Option(S) == {<<>>} \cup {<<x>> : x \in S}

CustomConfigs ==
    { CustomConfig(m, c, w, <<>>) :
        m \in Option(0..MaxIterCfg), c \in Option({305}), w \in Option({-1, 1, 2}) }

Inputs ==
    [content : {<<>>, BaseText}, target_section : {None, "section"},
     config : CustomConfigs]

FirstCall == pc = "idle" /\ \E in \in Inputs : StartRun(in)

Iterate == \E g \in GenChoices, j \in JudgeChoices : ExecuteIteration(g, j)

Next == FirstCall \/ Iterate \/ UpdateAndCheck \/ Finish

\* one call of evolve_content on a fresh agent
Spec == Init /\ [][Next]_vars

\* the oracle behaviours that decide how a run ends: every strategy
\* generates or every strategy fails, and the judge scores all alike
IterateFair ==
    \E g \in {GenAllOk, GenAllFail},
       j \in {JudgeAll(300), JudgeAll(305), JudgeAll(420), JudgeAllFail} :
        ExecuteIteration(g, j)

NextFair == FirstCall \/ IterateFair \/ UpdateAndCheck \/ Finish

\* evolve_content is sequential code: once called it keeps executing
FairSpec ==
    /\ Init /\ [][NextFair]_vars
    /\ WF_vars(IterateFair) /\ WF_vars(UpdateAndCheck) /\ WF_vars(Finish)

\* later calls on the same agent, with fewer oracle behaviours
ReuseConfigs ==
    { CustomConfig(<<>>, <<>>, <<>>, <<>>), CustomConfig(<<1>>, <<>>, <<>>, <<>>),
      CustomConfig(<<2>>, <<305>>, <<>>, <<>>), CustomConfig(<<>>, <<>>, <<1>>, <<>>) }

ReuseInputs ==
    [content : {<<>>, BaseText}, target_section : {None, "section"},
     config : ReuseConfigs]

AnyCall == \E in \in ReuseInputs : StartRun(in)

IterateReuse ==
    \E j \in {JudgeAll(300), JudgeAll(420)} : ExecuteIteration(GenAllOk, j)

NextReuse == AnyCall \/ IterateReuse \/ UpdateAndCheck \/ Finish

\* up to MaxCalls calls of evolve_content on one agent
SpecReuse == Init /\ [][NextReuse]_vars

-----------------------------------------------------------------------------
(* Direct calls of the components, one per behaviour *)

\* longest variant list and critique list handed to merge_variants
MaxVariants == 3
MaxCritiques == 2

DirectIds == {1, 2}
DirectTexts == {<<1>>, <<2, SEP, 3>>}
\* base_score values 0.4, 2.5, 3.0 and 5.6 reached before the clamp
DirectRawScores == {40, 250, 300, 560}

\* a ContentVariant with the given id and content
DirectVariant(id, content) ==
    [ variant_id            |-> id,
      variant_type          |-> 1,
      content               |-> content,
      generation_strategy   |-> "task_tool",
      quality_scores        |-> {},
      improvement_rationale |-> "strategy rationale" ]

\* the critique the judge gives the variant with that id for a uniform score
DirectCritique(id, score) ==
    EvaluateVariant(DirectVariant(id, <<>>), JudgeOutcome(TRUE, Uniform(score)))

SeqsUpTo(S, n) == UNION {[1..k -> S] : k \in 0..n}

DirectVariantLists ==
    SeqsUpTo({DirectVariant(i, c) : i \in DirectIds, c \in DirectTexts}, MaxVariants)

DirectCritiqueLists ==
    SeqsUpTo({DirectCritique(i, d) : i \in DirectIds, d \in {300, 420}}, MaxCritiques)

\* text returned by a sentence-level merge strategy
SynthesisText == <<90>>

MergeOutcomes == {MergeOutcome(TRUE, <<>>), MergeOutcome(FALSE, SynthesisText)}

\* VariantMerger.merge_variants(variants, critiques, merge_strategy)
CallMergeVariants ==
    /\ direct_call = NoCall
    /\ \E vs \in DirectVariantLists, cs \in DirectCritiqueLists,
          strategy \in MergeStrategies \cup {"unknown"}, outcome \in MergeOutcomes :
          direct_call' = [ op             |-> "merge_variants",
                           variants       |-> vs,
                           critiques      |-> cs,
                           merge_strategy |-> strategy,
                           outcome        |-> outcome,
                           returned       |-> MergeVariants(vs, cs, strategy, outcome) ]
    /\ UNCHANGED <<cancel_requested, pc, calls, input_data, config, current_evolution,
                   evolution_progress, evolution_history, best_content,
                   best_score, iteration, variants, critiques, gen_oracle,
                   iteration_result, reason, result>>

\* LLMJudgeEvaluator.evaluate_variant(variant, ...)
CallEvaluateVariant ==
    /\ direct_call = NoCall
    /\ \E outcome \in {JudgeOutcome(FALSE, <<>>)}
                        \cup {JudgeOutcome(TRUE, [i \in 1..Len(Dimensions) |->
                                                     ClampScore(raw[i])]) :
                                 raw \in [1..Len(Dimensions) -> DirectRawScores]} :
          direct_call' = [ op       |-> "evaluate_variant",
                           variant  |-> DirectVariant(1, <<1>>),
                           outcome  |-> outcome,
                           returned |-> EvaluateVariant(DirectVariant(1, <<1>>), outcome) ]
    /\ UNCHANGED <<cancel_requested, pc, calls, input_data, config, current_evolution,
                   evolution_progress, evolution_history, best_content,
                   best_score, iteration, variants, critiques, gen_oracle,
                   iteration_result, reason, result>>

NextDirect == CallMergeVariants \/ CallEvaluateVariant

\* one call of a component on freshly constructed objects
SpecDirect == Init /\ [][NextDirect]_vars

-----------------------------------------------------------------------------
(* _execute_evolution_iteration statement by statement *)

\* sensitivity of C20: every iteration starts again from the input content
GenerateStep_FromInput(gen) ==
    /\ pc = "iterate"
    /\ variants' = GenerateVariantsParallel(input_data.content, gen)
    /\ gen_oracle' = gen
    /\ critiques' = <<>>
    /\ pc' = "judge"
    /\ UNCHANGED <<cancel_requested, direct_call, calls, input_data, config,
                   current_evolution, evolution_progress, evolution_history,
                   best_content, best_score, iteration, iteration_result,
                   reason, result>>

\* line 1251: variants = self._generate_variants_parallel(base_content, ...)
\* with base_content = the caller's best_content (line 1200)
GenerateStep(gen) ==
    /\ pc = "iterate"
    /\ variants' = GenerateVariantsParallel(best_content, gen)
    /\ gen_oracle' = gen
    /\ critiques' = <<>>
    /\ pc' = "judge"
    /\ UNCHANGED <<cancel_requested, direct_call, calls, input_data, config,
                   current_evolution, evolution_progress, evolution_history,
                   best_content, best_score, iteration, iteration_result,
                   reason, result>>

\* sensitivity of C19: judging already publishes the score as the running best
EvaluateStep_PublishesScore(judge) ==
    /\ pc = "judge"
    /\ \E cs \in {EvaluateVariants(variants, judge)} :
           /\ critiques' = cs
           /\ variants' = JudgedVariants(variants, cs)
           /\ best_score' = IterationBestScore(cs)
    /\ pc' = "merge"
    /\ UNCHANGED <<cancel_requested, direct_call, calls, input_data, config,
                   current_evolution, evolution_progress, evolution_history,
                   best_content, iteration, gen_oracle,
                   iteration_result, reason, result>>

\* line 1254: critiques = self._evaluate_variants(variants, ...)
EvaluateStep(judge) ==
    /\ pc = "judge"
    /\ \E cs \in {EvaluateVariants(variants, judge)} :
           /\ critiques' = cs
           /\ variants' = JudgedVariants(variants, cs)
    /\ pc' = "merge"
    /\ UNCHANGED <<cancel_requested, direct_call, calls, input_data, config,
                   current_evolution, evolution_progress, evolution_history,
                   best_content, best_score, iteration, gen_oracle,
                   iteration_result, reason, result>>

\* lines 1257-1259: merged_content and the iteration's best_score (locals,
\* kept here in the value the iteration will return)
MergeStep ==
    /\ pc = "merge"
    /\ \E merged \in {AgentMergeVariants(variants, critiques)} :
           iteration_result' = [best_content |-> merged,
                                best_score   |-> IterationBestScore(critiques)]
    /\ pc' = "record"
    /\ UNCHANGED <<cancel_requested, direct_call, calls, input_data, config,
                   current_evolution, evolution_progress, evolution_history,
                   best_content, best_score, iteration, variants, critiques,
                   gen_oracle, reason, result>>

\* lines 1260-1286: the EvolutionIteration is appended and the iteration returns
RecordStep ==
    /\ pc = "record"
    /\ evolution_history' =
           Append(evolution_history,
                  AuditRecord(current_evolution, iteration + 1, variants, critiques,
                              iteration_result.best_content, evolution_progress[1]))
    /\ pc' = "update"
    /\ UNCHANGED <<cancel_requested, direct_call, calls, input_data, config,
                   current_evolution, evolution_progress, best_content,
                   best_score, iteration, variants, critiques, gen_oracle,
                   iteration_result, reason, result>>

GenerateAny == \E g \in GenChoices : GenerateStep(g)

EvaluateAny ==
    \E j \in {JudgeAll(300), JudgeAll(420), JudgeOneHigh(NumStrategies, 300, 350),
               JudgeAllFail, JudgeFailOnly(2, 350)} : EvaluateStep(j)

NextSteps ==
    FirstCall \/ GenerateAny \/ EvaluateAny \/ MergeStep \/ RecordStep
        \/ UpdateAndCheck \/ Finish

\* one call of evolve_content, each iteration taken statement by statement
SpecSteps == Init /\ [][NextSteps]_vars

-----------------------------------------------------------------------------
(* A caller that asks a run in progress to stop *)

\* The request is raised by the environment.  evolve_content takes only
\* input_data and the loop reads no flag, deadline or token, so no action
\* of the program depends on it.  It arrives while an iteration is running.
RequestCancel ==
    /\ pc = "iterate"
    /\ ~cancel_requested
    /\ cancel_requested' = TRUE
    /\ UNCHANGED <<pc, calls, input_data, config, current_evolution,
                   evolution_progress, evolution_history, best_content,
                   best_score, iteration, variants, critiques, gen_oracle,
                   iteration_result, reason, result, direct_call>>

NextCancel == NextFair \/ RequestCancel

\* one call of evolve_content during which the caller may ask for a stop
SpecCancel == Init /\ [][NextCancel]_vars

-----------------------------------------------------------------------------
(* One iteration's merge on the same variants listed in two orders *)

\* seq listed in the order p (a permutation of its indices)
Reordered(seq, p) == [i \in 1..Len(seq) |-> seq[p[i]]]

\* _merge_variants and the iteration's best_score (lines 1257-1259) on a
\* list of variants with their critiques, and on the same variants and
\* critiques listed in another order
CallMergeReordered ==
    /\ direct_call = NoCall
    /\ \E n \in 2..MaxVariants :
       \E texts \in [1..n -> DirectTexts], scores \in [1..n -> {300, 420}],
          p \in Permutations(1..n) :
       \E vs \in {[i \in 1..n |-> DirectVariant(i, texts[i])]} :
       \E cs \in {[i \in 1..n |-> DirectCritique(i, scores[i])]} :
          direct_call' = [ op        |-> "merge_reordered",
                           variants  |-> vs,
                           critiques |-> cs,
                           order     |-> p,
                           returned  |-> AgentMergeVariants(vs, cs),
                           best      |-> IterationBestScore(cs),
                           returned_reordered |->
                               AgentMergeVariants(Reordered(vs, p), Reordered(cs, p)),
                           best_reordered |-> IterationBestScore(Reordered(cs, p)) ]
    /\ UNCHANGED <<cancel_requested, pc, calls, input_data, config, current_evolution,
                   evolution_progress, evolution_history, best_content,
                   best_score, iteration, variants, critiques, gen_oracle,
                   iteration_result, reason, result>>

NextOrder == CallMergeReordered

\* the merge of one iteration, called on two listings of the same variants
SpecOrder == Init /\ [][NextOrder]_vars

-----------------------------------------------------------------------------
(* Runs whose configuration selects a merge strategy *)

\* a custom_config that names a merge strategy (<<>>: none) and an
\* iteration budget
MergeConfigs ==
    { IF s = <<>> THEN CustomConfig(<<m>>, <<>>, <<>>, <<>>)
      ELSE ("merge_strategy" :> s[1]) @@ CustomConfig(<<m>>, <<>>, <<>>, <<>>) :
        s \in Option(MergeStrategies), m \in 1..2 }

MergeConfigInputs ==
    [content : {BaseText, <<1, SEP, 2>>}, target_section : {"section"},
     config : MergeConfigs]

MergeConfigCall == pc = "idle" /\ \E in \in MergeConfigInputs : StartRun(in)

NextMergeConfig == MergeConfigCall \/ Iterate \/ UpdateAndCheck \/ Finish

\* one call of evolve_content whose configuration may select a merge strategy
SpecMergeConfig == Init /\ [][NextMergeConfig]_vars

-----------------------------------------------------------------------------
(* Direct calls of _generate_dimension_critique_points *)

\* dimension scores 1.0, 1.1, ..., 5.0
PointScores == {100 + 10 * k : k \in 0..40}

\* LLMJudgeEvaluator._generate_dimension_critique_points(content, dimension,
\* score, criteria)
CallCritiquePoints ==
    /\ direct_call = NoCall
    /\ \E i \in 1..Len(Dimensions), score \in PointScores :
          direct_call' = [ op        |-> "critique_points",
                           dimension |-> i,
                           score     |-> score,
                           returned  |-> DimensionCritiquePoints(i, score) ]
    /\ UNCHANGED <<cancel_requested, pc, calls, input_data, config, current_evolution,
                   evolution_progress, evolution_history, best_content,
                   best_score, iteration, variants, critiques, gen_oracle,
                   iteration_result, reason, result>>

NextPoints == CallCritiquePoints

\* one call of _generate_dimension_critique_points
SpecPoints == Init /\ [][NextPoints]_vars

-----------------------------------------------------------------------------
(* Properties of the evolution loop *)

HasProgress == Len(evolution_progress) = 1
Progress == evolution_progress[1]
ScoreHistory == Progress.score_history
InputValid == input_data.content # <<>> /\ input_data.target_section # None

NonDecreasing(s) == \A i \in 1..(Len(s) - 1) : s[i] <= s[i + 1]

\* the audit records written by the current call
RunAudit == SelectSeq(evolution_history, LAMBDA r : r.evolution = current_evolution)

\* C1: within a run best_score never decreases from one step to the next,
\* and score_history is a non-decreasing sequence.
C1_Monotonic ==
    [][ /\ (calls' = calls => best_score' >= best_score)
        /\ (Len(evolution_progress') = 1
               => NonDecreasing(evolution_progress'[1].score_history)) ]_vars

\* an iteration scored below the running best and the best was kept
C1_Witness ==
    /\ HasProgress
    /\ Len(ScoreHistory) >= 2
    /\ iteration_result.best_score < best_score
    /\ ScoreHistory[Len(ScoreHistory)] = best_score

\* C2 as stated: every successful return has
\* 1 <= iterations_completed <= max_iterations, whatever max_iterations is.
C2_Original ==
    (pc = "done" /\ result.status = "success")
        => /\ 1 <= result.iterations_completed
           /\ result.iterations_completed <= config["max_iterations"]

\* C2 amended: the bound holds when max_iterations >= 1; with
\* max_iterations <= 0 the run succeeds with iterations_completed = 0.
C2_Bounds ==
    (pc = "done" /\ result.status = "success")
        => IF config["max_iterations"] >= 1
           THEN /\ 1 <= result.iterations_completed
                /\ result.iterations_completed <= config["max_iterations"]
           ELSE result.iterations_completed = 0

\* a successful run that stopped with budget left
C2_Witness ==
    /\ pc = "done"
    /\ result.status = "success"
    /\ 2 <= result.iterations_completed
    /\ result.iterations_completed < config["max_iterations"]

\* C3: once best_score >= convergence_threshold after an iteration no
\* further iteration starts, so every score_history entry but the last is
\* below the threshold, and all of them are while the loop is still going.
C3_Convergence ==
    HasProgress =>
        /\ \A i \in 1..(Len(ScoreHistory) - 1) :
               ScoreHistory[i] < Progress.convergence_threshold
        /\ (pc \in {"iterate", "update"}
               => \A i \in 1..Len(ScoreHistory) :
                      ScoreHistory[i] < Progress.convergence_threshold)

\* the loop stopped on convergence after its second iteration, budget left
C3_Witness ==
    /\ pc = "finish"
    /\ reason = "converged"
    /\ Len(ScoreHistory) >= 2
    /\ Progress.completed_iterations < config["max_iterations"]
    /\ best_score >= config["convergence_threshold"]

\* the last n entries of s
LastEntries(s, n) == SubSeq(s, Len(s) - n + 1, Len(s))

\* C4 as stated: when the plateau check is reached (budget left, not
\* converged), a plateau is reported exactly when the last plateau_window
\* entries of score_history exist and max - min < the improvement threshold.
C4_PlateauRule ==
    (HasProgress /\ reason \in {"plateau", "continue"}
        /\ config["plateau_detection_window"] >= 1)
        => LET w == config["plateau_detection_window"]
           IN  (reason = "plateau")
                   <=> /\ Len(ScoreHistory) >= w
                       /\ SeqMax(LastEntries(ScoreHistory, w))
                            - SeqMin(LastEntries(ScoreHistory, w))
                              < config["quality_improvement_threshold"]

\* C5: a successful run that completed an iteration returns as final_score
\* the maximum iteration score of the run, and as final_content the merged
\* result of the earliest iteration that reached it.
C5_FinalIsFirstMax ==
    (pc = "done" /\ result.status = "success" /\ result.iterations_completed >= 1)
        => LET recs  == RunAudit
               top   == SeqMax([i \in 1..Len(recs) |-> recs[i].max_score])
               first == CHOOSE i \in 1..Len(recs) :
                            /\ recs[i].max_score = top
                            /\ \A j \in 1..(i - 1) : recs[j].max_score < top
           IN  /\ Len(recs) = result.iterations_completed
               /\ result.final_score = top
               /\ result.final_content = recs[first].merged_result

\* the returned content is not the last iteration's merge result
C5_Witness ==
    /\ pc = "done"
    /\ result.status = "success"
    /\ Len(RunAudit) >= 2
    /\ result.final_content # RunAudit[Len(RunAudit)].merged_result

\* C6 as stated: once an iteration of the run has completed, every return
\* hands back the best content and best score accumulated so far.
C6_BestReturned ==
    (pc = "done" /\ InputValid /\ HasProgress
        /\ Progress.completed_iterations >= 1)
        => /\ {"final_content", "final_score"} \subseteq result.keys
           /\ result.final_content = best_content
           /\ result.final_score = best_score

\* C7: a call with empty content or without target_section returns an
\* error at once: no iteration is run and completed_iterations,
\* score_history and the audit history stay as they were.
C7_FastFail ==
    [][ (calls' = calls + 1
            /\ (input_data'.content = <<>> \/ input_data'.target_section = None))
        => /\ pc' = "done"
           /\ result'.status = "error"
           /\ variants' = <<>>
           /\ critiques' = <<>>
           /\ UNCHANGED <<evolution_progress, evolution_history>> ]_vars

\* a fast-fail on an agent that has already completed a run
C7_Witness ==
    /\ pc = "done"
    /\ calls = 2
    /\ ~InputValid
    /\ result.status = "error"
    /\ HasProgress
    /\ Progress.completed_iterations >= 1
    /\ Len(evolution_history) >= 1

\* C8: the reason of a check follows the order max-iterations, convergence,
\* plateau: the first condition that holds is the one reported.
C8_Priority ==
    (HasProgress /\ reason # "none")
        => LET done_iterations == Progress.completed_iterations
               exhausted == done_iterations >= config["max_iterations"]
               converged == Progress.current_best_score
                                >= config["convergence_threshold"]
           IN  /\ exhausted => reason = "max_iterations"
               /\ (~exhausted /\ converged) => reason = "converged"
               /\ (~exhausted /\ ~converged /\ reason # "error")
                      => ((reason = "plateau")
                             <=> DetectPlateau(ScoreHistory, config) = "True")

\* the last allowed iteration also reached the convergence threshold
C8_Witness ==
    /\ HasProgress
    /\ reason = "max_iterations"
    /\ Progress.current_best_score >= config["convergence_threshold"]
    /\ Progress.completed_iterations >= 2

TerminalReasons == {"converged", "plateau", "max_iterations", "error"}

\* C9 as stated: every run that passes validation enters the loop and ends
\* through one of CONVERGED, PLATEAUED, MAX_ITER or ERROR.
C9_Original ==
    (pc = "done" /\ InputValid)
        => /\ reason \in TerminalReasons
           /\ Progress.completed_iterations >= 1

\* C9 amended: every validated run reaches DONE and never iterates again
\* after leaving the loop; with max_iterations >= 1 it has iterated and
\* ended through one of the four reasons, with max_iterations <= 0 it
\* returns success without iterating and without a termination check.
C9_Terminates ==
    /\ []((pc = "done" /\ InputValid /\ config["max_iterations"] >= 1)
            => /\ reason \in TerminalReasons
               /\ Progress.completed_iterations >= 1
               /\ Progress.completed_iterations <= config["max_iterations"])
    /\ []((pc = "done" /\ InputValid /\ config["max_iterations"] < 1)
            => /\ reason = "none"
               /\ Progress.completed_iterations = 0
               /\ result.status = "success")
    /\ [][(pc \in {"finish", "done"} /\ calls' = calls)
            => pc' \in {"finish", "done"}]_vars
    /\ ((pc \in {"iterate", "update", "finish"}) ~> (pc = "done"))

\* a run that ended on a plateau after several iterations
C9_Witness ==
    /\ pc = "done"
    /\ InputValid
    /\ reason = "plateau"
    /\ Progress.completed_iterations >= 2

\* C10: generate_variant returns a variant for every strategy; when the
\* generation step fails it is the fallback variant (content = the request's
\* base content, placeholder score, fallback rationale), and the iteration
\* goes on to judge it.
C10_Fallback ==
    pc = "update" =>
        /\ Len(variants) = NumStrategies
        /\ Len(critiques) = NumStrategies
        /\ \A t \in Strategies :
              LET returned == GenerateVariant(
                                  VariantGenerationRequest(best_content, t),
                                  gen_oracle[t])
              IN  /\ returned # Raised
                  /\ variants[t] = [returned EXCEPT
                                       !.quality_scores = critiques[t].dimension_scores]
                  /\ critiques[t].target_variant_id = variants[t].variant_id
                  /\ ~gen_oracle[t].ok =>
                        /\ returned.content = best_content
                        /\ returned.variant_type = t
                        /\ returned.quality_scores = {<<"overall", 50>>}
                        /\ returned.generation_strategy = "fallback"
                        /\ returned.improvement_rationale
                               = "Fallback variant due to generation failure"

\* an iteration in which one strategy failed and the others did not
C10_Witness ==
    /\ pc = "update"
    /\ \E t \in Strategies : ~gen_oracle[t].ok
    /\ \E t \in Strategies : gen_oracle[t].ok
    /\ Len(evolution_history) >= 2

-----------------------------------------------------------------------------
(* Properties of the components *)

Judged == direct_call.op = "evaluate_variant"
Merged == direct_call.op = "merge_variants"

\* C11 as stated: evaluate_variant never raises; when the judging step fails
\* the critique it returns has all eight dimension scores 3.0, overall_score
\* 3.0 and exactly one critique point.
C11_NeutralCritique ==
    (Judged /\ ~direct_call.outcome.ok)
        => /\ direct_call.returned # Raised
           /\ direct_call.returned.target_variant_id = direct_call.variant.variant_id
           /\ direct_call.returned.overall_score = 300
           /\ direct_call.returned.dimension_scores
                  = {<<Dimensions[i], 300>> : i \in 1..Len(Dimensions)}
           /\ Len(direct_call.returned.critique_points) = 1

\* every variant of the call has an id of its own, and at most one critique
DistinctIds ==
    /\ \A i, j \in 1..Len(direct_call.variants) :
           direct_call.variants[i].variant_id = direct_call.variants[j].variant_id
               => i = j
    /\ \A i, j \in 1..Len(direct_call.critiques) :
           direct_call.critiques[i].target_variant_id
               = direct_call.critiques[j].target_variant_id => i = j

\* the variants of the call that have a critique
Critiqued ==
    {i \in 1..Len(direct_call.variants) :
        \E k \in 1..Len(direct_call.critiques) :
            direct_call.critiques[k].target_variant_id
                = direct_call.variants[i].variant_id}

\* the overall_score of the critique of variant i
CritiqueScoreOf(i) ==
    LET k == CHOOSE k \in 1..Len(direct_call.critiques) :
                 direct_call.critiques[k].target_variant_id
                     = direct_call.variants[i].variant_id
    IN  direct_call.critiques[k].overall_score

\* C12: when the selected merge function raises on two or more variants,
\* merge_variants does not raise; it returns the content of a variant whose
\* critique has the highest overall_score, and the content of the first
\* variant when no variant has a critique.
C12_MergeFallback ==
    (Merged /\ Len(direct_call.variants) >= 2 /\ direct_call.outcome.raised
        /\ DistinctIds)
        => /\ direct_call.returned \in Seq(Nat)
           /\ IF Critiqued = {}
              THEN direct_call.returned = direct_call.variants[1].content
              ELSE \E i \in Critiqued :
                      /\ direct_call.returned = direct_call.variants[i].content
                      /\ \A j \in Critiqued : CritiqueScoreOf(j) <= CritiqueScoreOf(i)

\* the merge raised and the best-scored variant is not the first one
C12_Witness ==
    /\ Merged
    /\ Len(direct_call.variants) >= 2
    /\ direct_call.outcome.raised
    /\ DistinctIds
    /\ Critiqued # {}
    /\ direct_call.returned # direct_call.variants[1].content
    /\ direct_call.returned = direct_call.variants[2].content

\* C16: the eight dimension weights sum to 1.0, and the overall_score of
\* every critique evaluate_variant produces, the fallback critique
\* included, lies in [1.0, 5.0].
C16_OverallInRange ==
    Judged => /\ Len(DimensionWeights) = Len(Dimensions)
              /\ WeightedSumFrom(1, Uniform(1)) = 100
              /\ direct_call.returned.overall_score >= 100
              /\ direct_call.returned.overall_score <= 500

\* a critique with every dimension at 5.0, and so an overall_score of 5.0
C16_Witness ==
    /\ Judged
    /\ direct_call.outcome.ok
    /\ \A i \in 1..Len(Dimensions) : direct_call.outcome.scores[i] = 500
    /\ direct_call.returned.overall_score = 500

\* C13: merge identity: for a single variant, merge_variants returns the
\* variant's content unchanged, for every critique list and every strategy
\* name, known or unknown.
C13_MergeIdentity ==
    (Merged /\ Len(direct_call.variants) = 1)
        => direct_call.returned = direct_call.variants[1].content

\* a single two-paragraph variant merged under a sentence-level strategy
C13_Witness ==
    /\ Merged
    /\ Len(direct_call.variants) = 1
    /\ Len(Split(direct_call.variants[1].content)) = 2
    /\ direct_call.merge_strategy = "weighted_synthesis"
    /\ ~direct_call.outcome.raised
    /\ Len(direct_call.critiques) >= 1

\* C14: merge empty-safety: for an empty variant list merge_variants
\* returns the empty string, for every critique list and every strategy.
C14_MergeEmpty ==
    (Merged /\ Len(direct_call.variants) = 0) => direct_call.returned = <<>>

\* an empty variant list merged with critiques under an unknown strategy
C14_Witness ==
    /\ Merged
    /\ Len(direct_call.variants) = 0
    /\ Len(direct_call.critiques) = 2
    /\ direct_call.merge_strategy = "unknown"
    /\ direct_call.returned = <<>>

-----------------------------------------------------------------------------
(* Properties of an iteration *)

AllGenerationFailed ==
    /\ Len(gen_oracle) = NumStrategies
    /\ \A t \in Strategies : ~gen_oracle[t].ok

\* C15: when generation fails for every strategy, every variant of the
\* iteration has the base content, and the best_sections merge of these
\* variants returns exactly that content whatever their scores and ids are:
\* the iteration's merged result is the base content.
C15_AllFallbackMerge ==
    (pc = "update" /\ AllGenerationFailed)
        => /\ Len(variants) = NumStrategies
           /\ \A t \in Strategies : variants[t].content = best_content
           /\ MergeBestSections(variants, critiques) = best_content
           /\ iteration_result.best_content = best_content
           /\ evolution_history[Len(evolution_history)].merged_result = best_content

\* every strategy failed on a two-paragraph base, the fallback ids collide
\* and the judge scored the variants differently
C15_Witness ==
    /\ pc = "update"
    /\ AllGenerationFailed
    /\ Len(Split(best_content)) >= 2
    /\ variants[1].variant_id = variants[2].variant_id
    /\ \E i, j \in 1..Len(critiques) :
           critiques[i].overall_score # critiques[j].overall_score

\* C17 as stated, for runs allowed at least one iteration: every run that
\* passes input validation returns a non-empty final_content and a
\* final_score in [1,5]; no variant has empty content and best_content is
\* never replaced by an empty merge result.
C17_NonEmptyResult ==
    /\ (pc = "done" /\ InputValid /\ config["max_iterations"] >= 1)
           => /\ {"final_content", "final_score"} \subseteq result.keys
              /\ result.final_content # <<>>
              /\ result.final_score >= 100
              /\ result.final_score <= 500
    /\ \A i \in 1..Len(variants) : variants[i].content # <<>>
    /\ (InputValid /\ pc \in {"iterate", "update", "finish", "done"})
           => best_content # <<>>

\* C18 as stated: once cancellation has been requested, the run starts no
\* new iteration after the one in progress, and it returns the best
\* content accumulated so far.
C18_CancelStops ==
    [][ /\ (cancel_requested /\ pc = "update") => pc' # "iterate"
        /\ (cancel_requested' /\ pc' = "done"
                /\ evolution_progress'[1].completed_iterations >= 1)
              => /\ "final_content" \in result'.keys
                 /\ result'.final_content = best_content' ]_vars

\* C19: single-writer checkpoint: generation, judging and merging write
\* none of completed_iterations, score_history, best_content, best_score
\* and the audit history; the audit record is appended once, after the
\* merge, with the complete variants and critiques; the progress and the
\* running best are written once, after the iteration has returned.
C19_SingleWriter ==
    [][ /\ pc \in {"iterate", "judge", "merge", "finish"}
              => UNCHANGED <<evolution_progress, best_content, best_score,
                             evolution_history>>
        /\ pc = "record"
              => /\ UNCHANGED <<evolution_progress, best_content, best_score>>
                 /\ Len(evolution_history') = Len(evolution_history) + 1
                 /\ SubSeq(evolution_history', 1, Len(evolution_history))
                        = evolution_history
                 /\ LET rec == evolution_history'[Len(evolution_history')]
                    IN  /\ rec.n_variants = NumStrategies
                        /\ rec.n_critiques = NumStrategies
                        /\ rec.merged_result = iteration_result.best_content
                        /\ rec.iteration_number
                               = evolution_progress[1].completed_iterations + 1
        /\ pc = "update"
              => /\ UNCHANGED evolution_history
                 /\ evolution_progress'[1].completed_iterations
                        = evolution_progress[1].completed_iterations + 1
                 /\ evolution_progress'[1].score_history
                        = Append(evolution_progress[1].score_history, best_score')
                 /\ evolution_progress'[1].completed_iterations
                        = Len(SelectSeq(evolution_history,
                                 LAMBDA r : r.evolution = current_evolution)) ]_vars

\* the second iteration has judged variants above the running best, which
\* still stands as the first iteration left it
C19_Witness ==
    /\ pc = "merge"
    /\ iteration = 1
    /\ Progress.completed_iterations = 1
    /\ Len(RunAudit) = 1
    /\ IterationBestScore(critiques) > best_score
    /\ best_score = ScoreHistory[1]

\* best_content as the completed iterations of the run leave it: the input
\* content, or the merged result of the earliest iteration of maximal score
FinalizedBest ==
    LET recs == RunAudit
    IN  IF Len(recs) = 0 THEN input_data.content
        ELSE LET top   == SeqMax([i \in 1..Len(recs) |-> recs[i].max_score])
                 first == CHOOSE i \in 1..Len(recs) :
                              /\ recs[i].max_score = top
                              /\ \A j \in 1..(i - 1) : recs[j].max_score < top
             IN  recs[first].merged_result

\* C20: iterations are strictly sequential: generation runs only from the
\* loop head, when every earlier iteration has been recorded and counted,
\* and every generation call takes as its base the best_content those
\* iterations left (the input content for the first).
C20_Sequential ==
    [][ pc' = "judge"
          => /\ pc = "iterate"
             /\ evolution_progress[1].completed_iterations = iteration
             /\ Len(RunAudit) = iteration
             /\ best_content = FinalizedBest
             /\ Len(variants') = NumStrategies
             /\ \A t \in Strategies :
                    variants'[t] = GenerateVariant(
                                       VariantGenerationRequest(FinalizedBest, t),
                                       gen_oracle'[t]) ]_vars

\* the second iteration generated from a base that is not the input content,
\* and a fallback variant carries it
C20_Witness ==
    /\ pc = "judge"
    /\ iteration >= 1
    /\ best_content # input_data.content
    /\ \E t \in Strategies : ~gen_oracle[t].ok /\ variants[t].content = best_content

-----------------------------------------------------------------------------
(* Order of the variants *)

\* C21: for the same variants and critiques, the iteration's merged content
\* and its best score are the same whatever the order in which the variants
\* are listed, also when two variants have equal overall_score.
C21_OrderIndependent ==
    direct_call.op = "merge_reordered"
        => /\ direct_call.returned_reordered = direct_call.returned
           /\ direct_call.best_reordered = direct_call.best

\* C22: whatever generation and judging calls fail in an iteration, the
\* iteration holds one variant per strategy and one critique per variant
\* (critique i targets variant i), the merge is called on them, and the
\* iteration goes on through its record to the state update and the
\* termination check.
C22_IterationProceeds ==
    [][ /\ pc' \in {"judge", "merge", "record", "update"}
              => /\ Len(variants') = NumStrategies
                 /\ \A t \in Strategies : variants'[t].variant_type = t
        /\ pc' \in {"merge", "record", "update"}
              => /\ Len(critiques') = NumStrategies
                 /\ \A i \in Strategies :
                        critiques'[i].target_variant_id = variants'[i].variant_id
        /\ pc' \in {"record", "update"}
              => iteration_result'.best_content
                     = AgentMergeVariants(variants', critiques')
        /\ pc = "iterate" => pc' = "judge"
        /\ pc = "judge" => pc' = "merge"
        /\ pc = "merge" => pc' = "record"
        /\ pc = "record" => pc' = "update"
        /\ pc = "update"
              => /\ evolution_progress'[1].completed_iterations = iteration + 1
                 /\ reason' = CheckConvergence(best_score', iteration + 1, config,
                                  evolution_progress'[1].score_history).reason ]_vars

\* the second iteration in a row in which a generation call and a judging
\* call failed has reached the state update
C22_Witness ==
    /\ pc = "update"
    /\ iteration = 1
    /\ \E t \in Strategies : ~gen_oracle[t].ok
    /\ \E t \in Strategies : gen_oracle[t].ok
    /\ \E i \in Strategies : critiques[i].fallback
    /\ \E i \in Strategies : ~critiques[i].fallback

\* C23: a variant and a critique are never modified once created: judging,
\* merging and recording the audit entry leave every field of the
\* iteration's variants, and of its critiques, as they were.
C23_NeverMutated ==
    [][ /\ pc \in {"judge", "merge", "record"} => variants' = variants
        /\ pc \in {"merge", "record"} => critiques' = critiques ]_vars

\* C24: every iteration is merged by the merge strategy selected in the
\* run configuration (best_sections when none is selected): the iteration's
\* merged content is what merge_variants gives for the configured strategy.
C24_ConfiguredMerge ==
    pc = "update"
        => \E outcome \in MergeOutcomes :
               iteration_result.best_content
                   = MergeVariants(variants, critiques,
                                   IF "merge_strategy" \in DOMAIN config
                                   THEN config["merge_strategy"]
                                   ELSE "best_sections",
                                   outcome)

-----------------------------------------------------------------------------
(* The progress record *)

\* C25: score_history is append-only and tracks the running best: the state
\* update of an iteration appends exactly one entry, equal to best_score
\* after that iteration, no other step of the run changes the history, and
\* at every point of the run len(score_history) = completed_iterations and
\* current_best_score is the last entry.
C25_ScoreHistory ==
    [][ /\ Len(evolution_progress') = 1
              => LET p == evolution_progress'[1]
                 IN  /\ Len(p.score_history) = p.completed_iterations
                     /\ Len(p.score_history) > 0
                           => p.current_best_score
                                  = p.score_history[Len(p.score_history)]
        /\ pc = "update"
              => evolution_progress'[1].score_history
                     = Append(evolution_progress[1].score_history, best_score')
        /\ (pc # "update" /\ Len(evolution_progress) = 1)
              => evolution_progress'[1].score_history
                     = evolution_progress[1].score_history ]_vars

\* three iterations completed: the second raised the best, the third did not
C25_Witness ==
    /\ HasProgress
    /\ Len(ScoreHistory) = 3
    /\ Progress.completed_iterations = 3
    /\ ScoreHistory[1] < ScoreHistory[2]
    /\ ScoreHistory[2] = ScoreHistory[3]
    /\ iteration_result.best_score < ScoreHistory[3]
    /\ Progress.current_best_score = ScoreHistory[3]

-----------------------------------------------------------------------------
(* Critique points *)

\* round() of a value given in hundredths: to the nearest integer, a half
\* to the even one
RoundHundredths(x) ==
    LET q == x \div 100
        r == x % 100
    IN  IF r < 50 THEN q
        ELSE IF r > 50 THEN q + 1
        ELSE IF q % 2 = 0 THEN q ELSE q + 1

\* C26: a dimension scored s produces one critique point exactly when
\* s < 3.0 and none otherwise; the point's severity is
\* clamp(round(4 - s), 1, 5) and its priority equals its severity.
C26_CritiquePoints ==
    direct_call.op = "critique_points"
        => LET s   == direct_call.score
               pts == direct_call.returned
               sev == RoundHundredths(400 - s)
           IN  IF s < 300
               THEN /\ Len(pts) = 1
                    /\ pts[1].dimension = Dimensions[direct_call.dimension]
                    /\ pts[1].severity
                           = (IF sev < 1 THEN 1 ELSE IF sev > 5 THEN 5 ELSE sev)
                    /\ pts[1].priority_level = pts[1].severity
               ELSE pts = <<>>

-----------------------------------------------------------------------------
(* The best_sections merge *)

-----------------------------------------------------------------------------
(* Iterations that do not improve *)

\* C28: the state update of an iteration whose best score does not strictly
\* exceed the running best_score (equal or lower) leaves best_content and
\* best_score unchanged, while it appends one entry to score_history and
\* increments completed_iterations, and the iteration's audit record is in
\* the history.
C28_NoImprovement ==
    [][ (pc = "update" /\ iteration_result.best_score <= best_score)
          => /\ best_content' = best_content
             /\ best_score' = best_score
             /\ evolution_progress'[1].score_history
                    = Append(evolution_progress[1].score_history, best_score)
             /\ evolution_progress'[1].completed_iterations
                    = evolution_progress[1].completed_iterations + 1
             /\ Len(evolution_history') >= 1
             /\ LET rec == evolution_history'[Len(evolution_history')]
                IN  /\ rec.evolution = current_evolution
                    /\ rec.iteration_number
                           = evolution_progress'[1].completed_iterations
                    /\ rec.max_score = iteration_result.best_score
                    /\ rec.merged_result = iteration_result.best_content ]_vars

\* the second iteration tied the running best with another content, and the
\* stored content stayed
C28_Witness ==
    /\ pc \in {"iterate", "finish"}
    /\ HasProgress
    /\ Progress.completed_iterations = 2
    /\ iteration_result.best_score = best_score
    /\ iteration_result.best_content # best_content
    /\ ScoreHistory = <<best_score, best_score>>
    /\ Len(RunAudit) = 2

-----------------------------------------------------------------------------
(* Calls on an agent that has run before *)

\* iterations completed by the current call: none when it failed fast
CompletedInCall == IF InputValid THEN Progress.completed_iterations ELSE 0

\* C29: the audit list a call of evolve_content returns (evolution_history,
\* or partial_results on an error) holds exactly one record per iteration
\* completed in that call, numbered 1..iterations_completed, and no record
\* of an earlier run; also for later calls on the same agent and for calls
\* that fail fast.
C29_AuditOfRunOnly ==
    (pc = "done" /\ result.status \in {"success", "error"})
        => /\ Len(result.history) = CompletedInCall
           /\ \A i \in 1..Len(result.history) :
                  /\ result.history[i].evolution = current_evolution
                  /\ result.history[i].iteration_number = i

\* C30: the configuration is per run: a call runs with the defaults
\* (max_iterations 5, convergence_threshold 4.0, plateau window 3,
\* improvement threshold 0.1) overridden by the values that this call
\* supplies, whatever earlier calls on the same agent supplied.
C30_ConfigPerRun ==
    (pc # "idle" /\ InputValid)
        => /\ config = ApplyCustomConfig(DefaultConfig, input_data.config)
           /\ Progress.total_iterations
                  = ApplyCustomConfig(DefaultConfig, input_data.config)["max_iterations"]
           /\ Progress.convergence_threshold
                  = ApplyCustomConfig(DefaultConfig,
                                      input_data.config)["convergence_threshold"]

====
